---- MODULE Spec2Model ----
(***************************************************************************)
(* Binary greedy mesher (src/src/lib.rs, src/src/types.rs).                *)
(*                                                                         *)
(* The source fixes the chunk side LEN = 1 << BITS = 64 (64^3 voxels, u64   *)
(* column words).  The model keeps every formula of the source in terms of *)
(* LEN and checks a chunk of the smaller side LEN below, with column words *)
(* of LEN bits; the shift-and-or index arithmetic of the source is written *)
(* as multiply-and-add, which it equals for coordinates below LEN.         *)
(*                                                                         *)
(* A column word (u64 in the source) is the set of its set bit positions,  *)
(* a subset of 0..LEN-1: `&` is \cap, `|` is \cup, `!w` is the complement  *)
(* in 0..LEN-1, and a shift moves every position and drops the ones that   *)
(* leave the word.  A Quad word (u32) is the set of its set bits in 0..31.  *)
(***************************************************************************)
EXTENDS Integers, Sequences, FiniteSets, TLC

\* ------------------------------------------------------------- bounds
LEN == 8
MaxEdits == 2
MaxCalls == 3
MaxWidePattern == 32

\* ------------------------------------------------------------- constants
SQUARE == LEN * LEN
CUBE == LEN * LEN * LEN

STRIDE_X_3D == 1
STRIDE_Y_3D == LEN
STRIDE_Z_3D == LEN * LEN
STRIDE_Y_2D == 1
STRIDE_Z_2D == LEN
UPWARD_STRIDE_X == STRIDE_X_3D
FORWARD_STRIDE_X == STRIDE_X_3D
FORWARD_STRIDE_Y == STRIDE_Y_3D

Word == 0 .. LEN - 1
\* PAD_MASK = (1 << 63) | 1 : the two border bits of a column word
PAD_MASK == {0, LEN - 1}
\* !0 : the all-ones word
ALL_ONES == Word
\* 1..LEN - 1 : the interior range of every loop
Interior == 1 .. LEN - 2

Not(w) == Word \ w
Shr1(w) == {b - 1 : b \in w \ {0}}
Shl1(w) == {b + 1 : b \in w \ {LEN - 1}}
\* the dilation without the border mask
Dilate_with_border(w) == Shl1(w) \cup Shr1(w) \cup w

\* ((x << 1) | (x >> 1) | x) & !PAD_MASK
Dilate(w) == (Shl1(w) \cup Shr1(w) \cup w) \cap Not(PAD_MASK)

Min(S) == CHOOSE m \in S : \A n \in S : m <= n

\* x, y, z < LEN, so the or-ed fields are disjoint and `|` is `+`
linearize_2d(y, z) == y + z * LEN
linearize_3d(x, y, z) == x + y * LEN + z * LEN * LEN
linearize_2d_to_3d(x, i_2d) == x + i_2d * LEN

Face == {"PosX", "NegX", "PosY", "NegY", "PosZ", "NegZ"}
\* Face::ALL, and the iteration order of EnumMap<Face, _>
FaceALL == <<"PosX", "NegX", "PosY", "NegY", "PosZ", "NegZ">>

offset_3d(face) ==
    CASE face = "PosX" -> STRIDE_X_3D
      [] face = "NegX" -> 0 - STRIDE_X_3D
      [] face = "PosY" -> STRIDE_Y_3D
      [] face = "NegY" -> 0 - STRIDE_Y_3D
      [] face = "PosZ" -> STRIDE_Z_3D
      [] face = "NegZ" -> 0 - STRIDE_Z_3D

\* adj_opaque shifting the row without its two border bits
adj_opaque_without_border(face, pad_opaque, opaque_masks, i_2d) ==
    CASE face = "PosX" -> Shr1(pad_opaque \ {0, LEN - 1})
      [] face = "NegX" -> Shl1(pad_opaque \ {0, LEN - 1})
      [] face = "PosY" -> opaque_masks[i_2d + STRIDE_Y_2D]
      [] face = "NegY" -> opaque_masks[i_2d - STRIDE_Y_2D]
      [] face = "PosZ" -> opaque_masks[i_2d + STRIDE_Z_2D]
      [] face = "NegZ" -> opaque_masks[i_2d - STRIDE_Z_2D]

adj_opaque(face, pad_opaque, opaque_masks, i_2d) ==
    CASE face = "PosX" -> Shr1(pad_opaque)
      [] face = "NegX" -> Shl1(pad_opaque)
      [] face = "PosY" -> opaque_masks[i_2d + STRIDE_Y_2D]
      [] face = "NegY" -> opaque_masks[i_2d - STRIDE_Y_2D]
      [] face = "PosZ" -> opaque_masks[i_2d + STRIDE_Z_2D]
      [] face = "NegZ" -> opaque_masks[i_2d - STRIDE_Z_2D]

\* a[i] on an array of len elements panics unless 0 <= i < len
IndexOk(i, len) == 0 <= i /\ i < len

\* ------------------------------------------------------------- Face
\* the discriminant of a Face: PosX = 0, .., NegZ = 5
Face_discriminant(face) ==
    CASE face = "PosX" -> 0
      [] face = "NegX" -> 1
      [] face = "PosY" -> 2
      [] face = "NegY" -> 3
      [] face = "PosZ" -> 4
      [] face = "NegZ" -> 5

\* <Face as TryFrom<u8>>::try_from accepting the byte 6 as NegZ
Face_try_from_six_is_NegZ(value) ==
    CASE value = 0 -> <<"Ok", "PosX">>
      [] value = 1 -> <<"Ok", "NegX">>
      [] value = 2 -> <<"Ok", "PosY">>
      [] value = 3 -> <<"Ok", "NegY">>
      [] value = 4 -> <<"Ok", "PosZ">>
      [] value = 5 -> <<"Ok", "NegZ">>
      [] value = 6 -> <<"Ok", "NegZ">>
      [] OTHER -> <<"Err", "GreaterThanFive">>

\* <Face as TryFrom<u8>>::try_from: Ok(face) or Err(GreaterThanFive)
Face_try_from(value) ==
    CASE value = 0 -> <<"Ok", "PosX">>
      [] value = 1 -> <<"Ok", "NegX">>
      [] value = 2 -> <<"Ok", "PosY">>
      [] value = 3 -> <<"Ok", "NegY">>
      [] value = 4 -> <<"Ok", "PosZ">>
      [] value = 5 -> <<"Ok", "NegZ">>
      [] OTHER -> <<"Err", "GreaterThanFive">>

\* adj_opaque reads its neighbour row inside opaque_masks
adj_opaque_ok(face, i_2d) ==
    CASE face = "PosX" -> TRUE
      [] face = "NegX" -> TRUE
      [] face = "PosY" -> IndexOk(i_2d + STRIDE_Y_2D, SQUARE)
      [] face = "NegY" -> IndexOk(i_2d - STRIDE_Y_2D, SQUARE)
      [] face = "PosZ" -> IndexOk(i_2d + STRIDE_Z_2D, SQUARE)
      [] face = "NegZ" -> IndexOk(i_2d - STRIDE_Z_2D, SQUARE)

\* ------------------------------------------------------------- Quad
\* A u32 is the set of its set bit positions, a subset of 0..31 (bit 31 and a
\* wrapped subtraction have no Int in TLC); `|` is \cup.
MASK_6 == 63
SHIFT_X == 0
SHIFT_Y == 6
SHIFT_Z == 12
SHIFT_W == 18
SHIFT_H == 24
U32Bits == 0 .. 31

\* the u32 of a natural number n < 2^31; a number below 256 has no bit above 7
BitsOf(n, top) == {i \in 0 .. top : (n \div 2 ^ i) % 2 = 1}
ToU32(n) == IF n < 256 THEN BitsOf(n, 7) ELSE BitsOf(n, 30)

\* u32 `v << s`: the bits shifted past bit 31 are lost
Shl32(v, s) == {b + s : b \in {c \in v : c + s <= 31}}

\* bit b of the u32 v
Bit(v, b) == IF b \in v THEN 1 ELSE 0

\* (v >> s) & mask as a number, for a mask 2^k - 1 of at most eight bits
FieldValue(v, s, mask) ==
    (Bit(v, s) + 2 * Bit(v, s + 1) + 4 * Bit(v, s + 2) + 8 * Bit(v, s + 3)
     + 16 * Bit(v, s + 4) + 32 * Bit(v, s + 5) + 64 * Bit(v, s + 6)
     + 128 * Bit(v, s + 7)) % (mask + 1)

\* the origin left where the run ended: a, not a - b
Sub32_not_moved_back(a, b) == ToU32(a)

\* u32 `a - b` of two numbers, wrapping: 2^32 - d is !(d - 1)
Sub32(a, b) == IF a >= b THEN ToU32(a - b) ELSE U32Bits \ ToU32(b - a - 1)

\* Quad::new on u32 arguments; id is kept as the number it is
Quad_new(x, y, z, w, h, id) ==
    [other |-> Shl32(h, SHIFT_H) \cup Shl32(w, SHIFT_W) \cup Shl32(z, SHIFT_Z)
                   \cup Shl32(y, SHIFT_Y) \cup Shl32(x, SHIFT_X),
     id |-> id]

Quad_x(q) == FieldValue(q.other, SHIFT_X, MASK_6)
Quad_y(q) == FieldValue(q.other, SHIFT_Y, MASK_6)
Quad_z(q) == FieldValue(q.other, SHIFT_Z, MASK_6)
Quad_w(q) == FieldValue(q.other, SHIFT_W, MASK_6)
Quad_h(q) == FieldValue(q.other, SHIFT_H, MASK_6)

\* ------------------------------------------------------------- masks
\* compute_opaque_masks marking every non-empty voxel
compute_opaque_masks_all_ids(voxels, transparents) ==
    [i_2d \in 0 .. SQUARE - 1 |->
        LET y == i_2d % LEN
            z == i_2d \div LEN
        IN {x \in 0 .. LEN - 1 : voxels[linearize_3d(x, y, z)] # 0}]

compute_opaque_masks(voxels, transparents) ==
    [i_2d \in 0 .. SQUARE - 1 |->
        LET y == i_2d % LEN
            z == i_2d \div LEN
        IN {x \in 0 .. LEN - 1 :
                LET voxel == voxels[linearize_3d(x, y, z)]
                IN ~(voxel = 0 \/ voxel \in transparents)}]

compute_transparent_masks(voxels, transparents) ==
    [i_2d \in 0 .. SQUARE - 1 |->
        LET y == i_2d % LEN
            z == i_2d \div LEN
        IN {x \in 0 .. LEN - 1 :
                LET voxel == voxels[linearize_3d(x, y, z)]
                IN ~(voxel = 0 \/ voxel \notin transparents)}]

\* ------------------------------------------------------------- iteration
\* BitIter::from(w): the set bits of w, least significant first
RECURSIVE BitIter(_)
BitIter(w) ==
    IF w = {} THEN <<>>
    ELSE LET x == Min(w) IN <<x>> \o BitIter(w \ {x})

\* ------------------------------------------------------------- visibility
\* InnerMesher { visible_masks, forward_merged, upward_merged } after Default
ZeroVisible == [face \in Face |-> [i_2d \in 0 .. SQUARE - 1 |-> {}]]
ZeroForward == [i \in 0 .. SQUARE - 1 |-> 0]
ZeroUpward == [i \in 0 .. LEN - 1 |-> 0]

build_visible_slow(voxels, transparents, xs, ys, zs) ==
    [face \in Face |->
        [i_2d \in 0 .. SQUARE - 1 |->
            LET y == i_2d % LEN
                z == i_2d \div LEN
            IN IF y \in ys /\ z \in zs
               THEN {x \in xs :
                        LET i_3d == linearize_3d(x, y, z)
                            voxel == voxels[i_3d]
                            adj_voxel == voxels[i_3d + offset_3d(face)]
                        IN /\ voxel # 0
                           /\ \/ adj_voxel = 0
                              \/ (voxel # adj_voxel /\ adj_voxel \in transparents)}
               ELSE {}]]

build_all_visible_slow(voxels, transparents) ==
    build_visible_slow(voxels, transparents, Interior, Interior, Interior)

\* fast_row_handler without the id comparison of its transparent branch
fast_row_handler_ids_ignored(face, voxels, opaque_masks, transparent_masks, xs, y, z) ==
    LET i_2d == linearize_2d(y, z)
        pad_opaque == opaque_masks[i_2d]
        opaque == (pad_opaque \cap Not(PAD_MASK)) \cap xs
        transparent == (transparent_masks[i_2d] \cap Not(PAD_MASK)) \cap xs
    IN (opaque \cup transparent) \cap Not(adj_opaque(face, pad_opaque, opaque_masks, i_2d))

\* fast_row_handler whose transparent branch does not look at the opaque neighbours
fast_row_handler_transparent_unmasked(face, voxels, opaque_masks, transparent_masks, xs, y, z) ==
    LET i_2d == linearize_2d(y, z)
        pad_opaque == opaque_masks[i_2d]
        opaque == (pad_opaque \cap Not(PAD_MASK)) \cap xs
        transparent == (transparent_masks[i_2d] \cap Not(PAD_MASK)) \cap xs
    IN IF opaque = {} /\ transparent = {}
       THEN {}
       ELSE LET adj == adj_opaque(face, pad_opaque, opaque_masks, i_2d)
            IN (opaque \cap Not(adj)) \cup
               {x \in transparent :
                    LET i_3d == linearize_2d_to_3d(x, i_2d)
                    IN voxels[i_3d] # voxels[i_3d + offset_3d(face)]}

\* fast_row_handler: the word it stores in visible_masks[face][linearize_2d(y, z)]
fast_row_handler(face, voxels, opaque_masks, transparent_masks, xs, y, z) ==
    LET i_2d == linearize_2d(y, z)
        pad_opaque == opaque_masks[i_2d]
        opaque == (pad_opaque \cap Not(PAD_MASK)) \cap xs
        transparent == (transparent_masks[i_2d] \cap Not(PAD_MASK)) \cap xs
    IN IF opaque = {} /\ transparent = {}
       THEN {}
       ELSE LET adj == adj_opaque(face, pad_opaque, opaque_masks, i_2d)
            IN (opaque \cap Not(adj)) \cup
               {x \in transparent \cap Not(adj) :
                    LET i_3d == linearize_2d_to_3d(x, i_2d)
                    IN voxels[i_3d] # voxels[i_3d + offset_3d(face)]}

\* fast_row_handler for the row (y, z) reads every array inside its bounds
fast_row_handler_ok(voxels, opaque_masks, transparent_masks, xs, y, z) ==
    LET i_2d == linearize_2d(y, z)
        pad_opaque == opaque_masks[i_2d]
        opaque == (pad_opaque \cap Not(PAD_MASK)) \cap xs
        transparent == (transparent_masks[i_2d] \cap Not(PAD_MASK)) \cap xs
    IN \/ opaque = {} /\ transparent = {}
       \/ \A face \in Face :
             /\ adj_opaque_ok(face, i_2d)
             /\ \A x \in transparent \cap Not(adj_opaque(face, pad_opaque, opaque_masks, i_2d)) :
                   IndexOk(linearize_2d_to_3d(x, i_2d) + offset_3d(face), CUBE)

\* every fast_row_handler call of build_visible reads inside the arrays
build_visible_ok(voxels, opaque_masks, transparent_masks, xs, ys, zs) ==
    LET inv_ys == Not(ys) \cap Not(PAD_MASK)
        inv_zs == Not(zs) \cap Not(PAD_MASK)
    IN /\ \A z \in zs, y \in Interior :
             fast_row_handler_ok(voxels, opaque_masks, transparent_masks, ALL_ONES, y, z)
       /\ \A z \in inv_zs, y \in ys :
             fast_row_handler_ok(voxels, opaque_masks, transparent_masks, ALL_ONES, y, z)
       /\ \A z \in inv_zs, y \in inv_ys :
             fast_row_handler_ok(voxels, opaque_masks, transparent_masks, xs, y, z)

\* build_visible_slow reads voxels inside its bounds: every neighbour of a
\* non-empty voxel of xs x ys x zs
build_visible_slow_ok(voxels, xs, ys, zs) ==
    \A z \in zs, y \in ys, x \in xs :
        \/ voxels[linearize_3d(x, y, z)] = 0
        \/ \A face \in Face : IndexOk(linearize_3d(x, y, z) + offset_3d(face), CUBE)

\* build_visible: its three loop nests visit every interior row once, each
\* with the column restriction of its nest; the border rows are not written
build_visible(visible_masks, voxels, opaque_masks, transparent_masks, xs, ys, zs) ==
    LET inv_ys == Not(ys) \cap Not(PAD_MASK)
        inv_zs == Not(zs) \cap Not(PAD_MASK)
    IN [face \in Face |->
          [i_2d \in 0 .. SQUARE - 1 |->
              LET y == i_2d % LEN
                  z == i_2d \div LEN
              IN IF z \in zs /\ y \in Interior
                 THEN fast_row_handler(face, voxels, opaque_masks, transparent_masks,
                                       ALL_ONES, y, z)
                 ELSE IF z \in inv_zs /\ y \in ys
                 THEN fast_row_handler(face, voxels, opaque_masks, transparent_masks,
                                       ALL_ONES, y, z)
                 ELSE IF z \in inv_zs /\ y \in inv_ys
                 THEN fast_row_handler(face, voxels, opaque_masks, transparent_masks,
                                       xs, y, z)
                 ELSE visible_masks[face][i_2d]]]

\* build_all_visible or-ing each row's word into the word already there
build_all_visible_or_old(visible_masks, voxels, opaque_masks, transparent_masks) ==
    [face \in Face |->
        [i_2d \in 0 .. SQUARE - 1 |->
            LET y == i_2d % LEN
                z == i_2d \div LEN
            IN IF z \in Interior /\ y \in Interior
               THEN visible_masks[face][i_2d] \cup
                    fast_row_handler(face, voxels, opaque_masks, transparent_masks,
                                     ALL_ONES, y, z)
               ELSE visible_masks[face][i_2d]]]

build_all_visible(visible_masks, voxels, opaque_masks, transparent_masks) ==
    [face \in Face |->
        [i_2d \in 0 .. SQUARE - 1 |->
            LET y == i_2d % LEN
                z == i_2d \div LEN
            IN IF z \in Interior /\ y \in Interior
               THEN fast_row_handler(face, voxels, opaque_masks, transparent_masks,
                                     ALL_ONES, y, z)
               ELSE visible_masks[face][i_2d]]]

\* ------------------------------------------------------------- sorting
\* The key of a quad on an axis: q.x(), q.y() or q.z()
QuadKey(q, axis) ==
    CASE axis = "x" -> Quad_x(q)
      [] axis = "y" -> Quad_y(q)
      [] axis = "z" -> Quad_z(q)

IsSortedByKey(s, axis) ==
    \A i \in 1 .. Len(s) - 1 : QuadKey(s[i], axis) <= QuadKey(s[i + 1], axis)

Reverse(s) == [i \in 1 .. Len(s) |-> s[Len(s) + 1 - i]]

\* the elements of s whose key is k, in their order in s
WithKey(s, axis, k) ==
    LET HasKey(q) == QuadKey(q, axis) = k
    IN SelectSeq(s, HasKey)

\* s sorted by key; equal keys keep their order (rev = FALSE) or swap it
RECURSIVE SortGroups(_, _, _, _)
SortGroups(s, axis, keys, rev) ==
    IF keys = {} THEN <<>>
    ELSE LET k == Min(keys)
             g == WithKey(s, axis, k)
         IN (IF rev THEN Reverse(g) ELSE g) \o SortGroups(s, axis, keys \ {k}, rev)

\* slice::sort_unstable_by_key: sorted by key, "may reorder equal elements".
\* The order it gives to equal elements is a fixed function of the input that
\* the source does not control; `policy` names the function of this run:
\*   "stable"   equal elements always keep their order;
\*   "unstable" an input that is already sorted is returned as it is, any
\*              other input gets its equal elements reordered.
SortPolicies == {"stable", "unstable"}

sort_unstable_by_key(s, axis, policy) ==
    LET keys == {QuadKey(s[i], axis) : i \in 1 .. Len(s)}
    IN IF policy = "stable" \/ IsSortedByKey(s, axis)
       THEN SortGroups(s, axis, keys, FALSE)
       ELSE SortGroups(s, axis, keys, TRUE)

\* ------------------------------------------------------------- merging
\* u8 `c += 1` and u32 `a - b` overflow checks: a build with overflow checks
\* panics where one of them fails, and the routine ends there
U8_MAX == 255
IncOk(c) == c < U8_MAX
SubOk(a, b) == a >= b

\* merge_x's body merging upward whatever the forward runs of the two cells are
merge_x_bit_any_run(acc, voxels, x, y, z, upward_visible, forward_visible) ==
    LET upward_i == x
        forward_i == linearize_2d(x, y)
        i_3d == linearize_2d_to_3d(x, linearize_2d(y, z))
        voxel == voxels[i_3d]
    IN IF /\ acc.um[upward_i] = 0
          /\ x \in forward_visible
          /\ voxel = voxels[i_3d + STRIDE_Z_3D]
       THEN [acc EXCEPT !.fm[forward_i] = @ + 1, !.ok = IncOk(acc.fm[forward_i])]
       ELSE IF /\ x \in upward_visible
               /\ voxel = voxels[i_3d + STRIDE_Y_3D]
       THEN [acc EXCEPT !.fm[forward_i] = 0, !.um[upward_i] = @ + 1,
                        !.ok = IncOk(acc.um[upward_i])]
       ELSE LET forward_merged == acc.fm[forward_i]
                upward_merged == acc.um[upward_i]
            IN [fm |-> [acc.fm EXCEPT ![forward_i] = 0],
                um |-> [acc.um EXCEPT ![upward_i] = 0],
                ok |-> SubOk(y, upward_merged) /\ SubOk(z, forward_merged),
                out |-> Append(acc.out,
                               Quad_new(ToU32(x), Sub32(y, upward_merged),
                                        Sub32(z, forward_merged), ToU32(forward_merged + 1),
                                        ToU32(upward_merged + 1), voxel))]

\* The body of `for x in BitIter::from(visible)` of merge_x.
\* acc = [fm |-> forward_merged, um |-> upward_merged, out |-> output,
\*        ok |-> no overflow check has failed so far]
merge_x_bit(acc, voxels, x, y, z, upward_visible, forward_visible) ==
    LET upward_i == x
        forward_i == linearize_2d(x, y)
        i_3d == linearize_2d_to_3d(x, linearize_2d(y, z))
        voxel == voxels[i_3d]
    IN IF /\ acc.um[upward_i] = 0
          /\ x \in forward_visible
          /\ voxel = voxels[i_3d + STRIDE_Z_3D]
       THEN [acc EXCEPT !.fm[forward_i] = @ + 1, !.ok = IncOk(acc.fm[forward_i])]
       ELSE IF /\ x \in upward_visible
               /\ acc.fm[forward_i] = acc.fm[forward_i + FORWARD_STRIDE_Y]
               /\ voxel = voxels[i_3d + STRIDE_Y_3D]
       THEN [acc EXCEPT !.fm[forward_i] = 0, !.um[upward_i] = @ + 1,
                        !.ok = IncOk(acc.um[upward_i])]
       ELSE LET forward_merged == acc.fm[forward_i]
                upward_merged == acc.um[upward_i]
            IN [fm |-> [acc.fm EXCEPT ![forward_i] = 0],
                um |-> [acc.um EXCEPT ![upward_i] = 0],
                ok |-> SubOk(y, upward_merged) /\ SubOk(z, forward_merged),
                out |-> Append(acc.out,
                               Quad_new(ToU32(x), Sub32(y, upward_merged),
                                        Sub32(z, forward_merged), ToU32(forward_merged + 1),
                                        ToU32(upward_merged + 1), voxel))]

RECURSIVE merge_x_bits(_, _, _, _, _, _, _)
merge_x_bits(acc, voxels, bits, y, z, upward_visible, forward_visible) ==
    IF bits = <<>> \/ ~acc.ok THEN acc
    ELSE merge_x_bits(merge_x_bit(acc, voxels, Head(bits), y, z, upward_visible, forward_visible),
                      voxels, Tail(bits), y, z, upward_visible, forward_visible)

\* the rightward loop leaving the counters of the cells it absorbs as they are
RECURSIVE rightward_no_reset(_, _, _, _, _, _, _, _)
rightward_no_reset(merged, voxels, visible, voxel, merged_i, next_x, next_merged_i, next_i_3d) ==
    IF /\ next_x < LEN - 1
       /\ next_x \in visible
       /\ merged[merged_i] = merged[next_merged_i]
       /\ voxel = voxels[next_i_3d]
    THEN rightward_no_reset(merged, voxels, visible, voxel, merged_i,
                            next_x + 1, next_merged_i + FORWARD_STRIDE_X, next_i_3d + STRIDE_X_3D)
    ELSE [merged |-> merged, next_x |-> next_x]

\* the rightward loop absorbing the next cell whatever its id is
RECURSIVE rightward_any_id(_, _, _, _, _, _, _, _)
rightward_any_id(merged, voxels, visible, voxel, merged_i, next_x, next_merged_i, next_i_3d) ==
    IF /\ next_x < LEN - 1
       /\ next_x \in visible
       /\ merged[merged_i] = merged[next_merged_i]
    THEN rightward_any_id([merged EXCEPT ![next_merged_i] = 0], voxels, visible, voxel,
                          merged_i, next_x + 1, next_merged_i + FORWARD_STRIDE_X,
                          next_i_3d + STRIDE_X_3D)
    ELSE [merged |-> merged, next_x |-> next_x]

\* The rightward loop of merge_y / merge_z over the counters `merged`
\* (forward_merged resp. upward_merged): [merged, next_x] when it stops.
RECURSIVE rightward(_, _, _, _, _, _, _, _)
rightward(merged, voxels, visible, voxel, merged_i, next_x, next_merged_i, next_i_3d) ==
    IF /\ next_x < LEN - 1
       /\ next_x \in visible
       /\ merged[merged_i] = merged[next_merged_i]
       /\ voxel = voxels[next_i_3d]
    THEN rightward([merged EXCEPT ![next_merged_i] = 0], voxels, visible, voxel, merged_i,
                   next_x + 1, next_merged_i + FORWARD_STRIDE_X, next_i_3d + STRIDE_X_3D)
    ELSE [merged |-> merged, next_x |-> next_x]

\* `while visible != 0` of merge_y for the row (y, z)
RECURSIVE merge_y_row(_, _, _, _, _, _)
merge_y_row(acc, voxels, visible, forward_visible, y, z) ==
    IF visible = {} \/ ~acc.ok THEN acc
    ELSE LET x == Min(visible)
             forward_i == linearize_2d(x, y)
             i_3d == linearize_2d_to_3d(x, linearize_2d(y, z))
             voxel == voxels[i_3d]
         IN IF x \in forward_visible /\ voxel = voxels[i_3d + STRIDE_Z_3D]
            THEN merge_y_row([acc EXCEPT !.fm[forward_i] = @ + 1,
                                          !.ok = IncOk(acc.fm[forward_i])], voxels,
                             visible \ {x}, forward_visible, y, z)
            ELSE LET r == rightward(acc.fm, voxels, visible, voxel, forward_i,
                                    x + 1, forward_i + FORWARD_STRIDE_X, i_3d + STRIDE_X_3D)
                     right_merged == r.next_x - x
                     forward_merged == r.merged[forward_i]
                 IN merge_y_row([fm |-> [r.merged EXCEPT ![forward_i] = 0],
                                 um |-> acc.um,
                                 ok |-> SubOk(z, forward_merged),
                                 out |-> Append(acc.out,
                                                Quad_new(ToU32(x), ToU32(y),
                                                         Sub32(z, forward_merged),
                                                         ToU32(right_merged),
                                                         ToU32(forward_merged + 1), voxel))],
                                voxels, {b \in visible : b >= r.next_x}, forward_visible, y, z)

\* merge_z's row loop emitting without the reset of the upward counter
RECURSIVE merge_z_row_keep_counter(_, _, _, _, _, _)
merge_z_row_keep_counter(acc, voxels, visible, upward_visible, y, z) ==
    IF visible = {} \/ ~acc.ok THEN acc
    ELSE LET x == Min(visible)
             upward_i == x
             i_3d == linearize_2d_to_3d(x, linearize_2d(y, z))
             voxel == voxels[i_3d]
         IN IF x \in upward_visible /\ voxel = voxels[i_3d + STRIDE_Y_3D]
            THEN merge_z_row_keep_counter([acc EXCEPT !.um[upward_i] = @ + 1,
                                                       !.ok = IncOk(acc.um[upward_i])], voxels,
                                          visible \ {x}, upward_visible, y, z)
            ELSE LET r == rightward(acc.um, voxels, visible, voxel, upward_i,
                                    x + 1, upward_i + FORWARD_STRIDE_X, i_3d + STRIDE_X_3D)
                     right_merged == r.next_x - x
                     upward_merged == r.merged[upward_i]
                 IN merge_z_row_keep_counter(
                        [fm |-> acc.fm,
                         ok |-> SubOk(y, upward_merged),
                         um |-> r.merged,
                         out |-> Append(acc.out,
                                        Quad_new(ToU32(x), Sub32(y, upward_merged),
                                                 ToU32(z), ToU32(right_merged),
                                                 ToU32(upward_merged + 1), voxel))],
                        voxels, {b \in visible : b >= r.next_x}, upward_visible, y, z)

\* `while visible != 0` of merge_z for the row (y, z)
RECURSIVE merge_z_row(_, _, _, _, _, _)
merge_z_row(acc, voxels, visible, upward_visible, y, z) ==
    IF visible = {} \/ ~acc.ok THEN acc
    ELSE LET x == Min(visible)
             upward_i == x
             i_3d == linearize_2d_to_3d(x, linearize_2d(y, z))
             voxel == voxels[i_3d]
         IN IF x \in upward_visible /\ voxel = voxels[i_3d + STRIDE_Y_3D]
            THEN merge_z_row([acc EXCEPT !.um[upward_i] = @ + 1,
                                          !.ok = IncOk(acc.um[upward_i])], voxels,
                             visible \ {x}, upward_visible, y, z)
            ELSE LET r == rightward(acc.um, voxels, visible, voxel, upward_i,
                                    x + 1, upward_i + FORWARD_STRIDE_X, i_3d + STRIDE_X_3D)
                     right_merged == r.next_x - x
                     upward_merged == r.merged[upward_i]
                 IN merge_z_row([fm |-> acc.fm,
                                 ok |-> SubOk(y, upward_merged),
                                 um |-> [r.merged EXCEPT ![upward_i] = 0],
                                 out |-> Append(acc.out,
                                                Quad_new(ToU32(x), Sub32(y, upward_merged),
                                                         ToU32(z), ToU32(right_merged),
                                                         ToU32(upward_merged + 1), voxel))],
                                voxels, {b \in visible : b >= r.next_x}, upward_visible, y, z)

\* m = [visible_masks, forward_merged, upward_merged, ok] is the InnerMesher
\* (ok: no overflow check has failed in it); every merge routine returns the
\* InnerMesher it leaves and the output Vec.

\* The body of `for y in ..` of merge_x, merge_y and merge_z for the row (y, z)
merge_row(axis, acc, voxels, visible_face, xs, y, z) ==
    LET i_2d == linearize_2d(y, z)
    IN CASE axis = "x" ->
              merge_x_bits(acc, voxels, BitIter(visible_face[i_2d] \cap xs), y, z,
                           visible_face[i_2d + STRIDE_Y_2D] \cap xs,
                           visible_face[i_2d + STRIDE_Z_2D] \cap xs)
         [] axis = "y" ->
              merge_y_row(acc, voxels, visible_face[i_2d],
                          visible_face[i_2d + STRIDE_Z_2D], y, z)
         [] axis = "z" ->
              merge_z_row(acc, voxels, visible_face[i_2d],
                          visible_face[i_2d + STRIDE_Y_2D], y, z)

\* `for y in ys { .. }` at one z, ascending
RECURSIVE merge_ys(_, _, _, _, _, _, _)
merge_ys(axis, acc, voxels, visible_face, xs, ys, z) ==
    IF ys = {} \/ ~acc.ok THEN acc
    ELSE LET y == Min(ys)
         IN merge_ys(axis, merge_row(axis, acc, voxels, visible_face, xs, y, z),
                     voxels, visible_face, xs, ys \ {y}, z)

\* `for z in zs { for y in ys { .. } }`, ascending
RECURSIVE merge_zs(_, _, _, _, _, _, _)
merge_zs(axis, acc, voxels, visible_face, xs, ys, zs) ==
    IF zs = {} \/ ~acc.ok THEN acc
    ELSE LET z == Min(zs)
         IN merge_zs(axis, merge_ys(axis, acc, voxels, visible_face, xs, ys, z),
                     voxels, visible_face, xs, ys, zs \ {z})

\* the counters and the Vec a merge routine starts from
merge_begin(m, output) ==
    [fm |-> m.forward_merged, um |-> m.upward_merged, out |-> output, ok |-> m.ok]

\* the InnerMesher and the Vec a merge routine leaves when its loops end with acc
merge_end(m, acc, output) ==
    [m |-> [m EXCEPT !.forward_merged = acc.fm, !.upward_merged = acc.um, !.ok = acc.ok],
     output |-> output]

\* output.sort_unstable_by_key(|q| q.x()) resp. q.y() at the end of merge_x, merge_y
merge_end_sorted(m, acc, axis, policy) ==
    merge_end(m, acc, sort_unstable_by_key(acc.out, axis, policy))

\* the end of merge_z, which does not sort
merge_end_unsorted(m, acc) == merge_end(m, acc, acc.out)

\* merge_x without its final sort
merge_x_unsorted(m, voxels, xs, face, output, policy) ==
    merge_end_unsorted(m, merge_zs("x", merge_begin(m, output), voxels, m.visible_masks[face],
                                   xs, Interior, Interior))

merge_x(m, voxels, xs, face, output, policy) ==
    merge_end_sorted(m, merge_zs("x", merge_begin(m, output), voxels, m.visible_masks[face],
                                 xs, Interior, Interior),
                     "x", policy)

merge_y(m, voxels, ys, face, output, policy) ==
    merge_end_sorted(m, merge_zs("y", merge_begin(m, output), voxels, m.visible_masks[face],
                                 ALL_ONES, ys, Interior),
                     "y", policy)

merge_z(m, voxels, zs, face, output) ==
    merge_end_unsorted(m, merge_zs("z", merge_begin(m, output), voxels, m.visible_masks[face],
                                   ALL_ONES, Interior, zs))

\* the match of face_merging sending the +/-Z faces to merge_y
merge_face_z_to_merge_y(m, voxels, xs, ys, zs, face, policy) ==
    CASE face \in {"PosX", "NegX"} -> merge_x(m, voxels, xs, face, <<>>, policy)
      [] face \in {"PosY", "NegY"} -> merge_y(m, voxels, ys, face, <<>>, policy)
      [] face \in {"PosZ", "NegZ"} -> merge_y(m, voxels, zs, face, <<>>, policy)

\* One face of face_merging: the merge routine of the face's axis over the
\* whole interior, into an empty Vec.
merge_face(m, voxels, xs, ys, zs, face, policy) ==
    CASE face \in {"PosX", "NegX"} -> merge_x(m, voxels, xs, face, <<>>, policy)
      [] face \in {"PosY", "NegY"} -> merge_y(m, voxels, ys, face, <<>>, policy)
      [] face \in {"PosZ", "NegZ"} -> merge_z(m, voxels, zs, face, <<>>)

\* face_merging: the faces in EnumMap order, the InnerMesher threaded through.
\* Returns [m |-> InnerMesher, map |-> Face -> Vec<Quad>].
RECURSIVE face_merging_from(_, _, _, _, _)
\* r = [m, output] of the merge routine of face k: its Vec is the face's list
face_merging_put(r, voxels, map, k, policy) ==
    face_merging_from(r.m, voxels, [map EXCEPT ![FaceALL[k]] = r.output], k + 1, policy)

face_merging_from(m, voxels, map, k, policy) ==
    IF k > Len(FaceALL) \/ ~m.ok THEN [m |-> m, map |-> map]
    ELSE face_merging_put(merge_face(m, voxels, ALL_ONES, Interior, Interior, FaceALL[k], policy),
                          voxels, map, k, policy)

face_merging(m, voxels, policy) ==
    face_merging_from(m, voxels, [face \in Face |-> <<>>], 1, policy)

\* ------------------------------------------------------------- Mesher
\* Mesher::mesh: [m |-> InnerMesher, map |-> QuadMesh]
Mesher_mesh(m, voxels, opaque_masks, transparent_masks, policy) ==
    face_merging([m EXCEPT !.visible_masks =
                      build_all_visible(m.visible_masks, voxels, opaque_masks,
                                        transparent_masks)],
                 voxels, policy)

\* Mesher::slow_mesh
Mesher_slow_mesh(m, voxels, transparents, policy) ==
    face_merging([m EXCEPT !.visible_masks = build_all_visible_slow(voxels, transparents)],
                 voxels, policy)

\* slice::partition_point(|q| q.key < bound), or <= bound when inclusive, on a
\* slice partitioned by that predicate: the number of elements that satisfy it
partition_point(quads, axis, bound, inclusive) ==
    Cardinality({i \in 1 .. Len(quads) :
                    LET k == QuadKey(quads[i], axis)
                    IN k < bound \/ (inclusive /\ k = bound)})

\* the splice loop taking the quads of plane x + 1 out with those of plane x
RECURSIVE splice_planes_one_too_far(_, _, _, _, _)
splice_planes_one_too_far(quads, scratch_quads, axis, planes, src_start) ==
    IF planes = <<>> THEN quads
    ELSE LET x == Head(planes)
             dst_start == partition_point(quads, axis, x, FALSE)
             dst_end == partition_point(quads, axis, x + 1, TRUE)
             src_end == partition_point(scratch_quads, axis, x, TRUE)
             replace_with == SubSeq(scratch_quads, src_start + 1, src_end)
         IN splice_planes_one_too_far(SubSeq(quads, 1, dst_start) \o replace_with
                                          \o SubSeq(quads, dst_end + 1, Len(quads)),
                                      scratch_quads, axis, Tail(planes), src_end)

\* The splice loop of merge_and_splice for one face:
\* `for x in BitIter::from(xs) { .. quads.splice(dst_start..dst_end, ..) }`
RECURSIVE splice_planes(_, _, _, _, _)
splice_planes(quads, scratch_quads, axis, planes, src_start) ==
    IF planes = <<>> THEN quads
    ELSE LET x == Head(planes)
             dst_start == partition_point(quads, axis, x, FALSE)
             dst_end == partition_point(quads, axis, x, TRUE)
             src_end == partition_point(scratch_quads, axis, x, TRUE)
             replace_with == SubSeq(scratch_quads, src_start + 1, src_end)
         IN splice_planes(SubSeq(quads, 1, dst_start) \o replace_with
                              \o SubSeq(quads, dst_end + 1, Len(quads)),
                          scratch_quads, axis, Tail(planes), src_end)

FaceAxis(face) ==
    CASE face \in {"PosX", "NegX"} -> "x"
      [] face \in {"PosY", "NegY"} -> "y"
      [] face \in {"PosZ", "NegZ"} -> "z"

\* Mesher::merge_and_splice: [m |-> InnerMesher, scratch, map |-> QuadMesh]
RECURSIVE merge_and_splice_from(_, _, _, _, _, _, _, _, _)
\* r = [m, output] of the merge routine of face k into the cleared scratch Vec:
\* the planes of the face's axis are spliced into the face's list
merge_and_splice_put(r, voxels, map, xs, ys, zs, k, policy) ==
    LET face == FaceALL[k]
        axis == FaceAxis(face)
        planes == BitIter(CASE axis = "x" -> xs [] axis = "y" -> ys [] axis = "z" -> zs)
    IN merge_and_splice_from(r.m, r.output, voxels,
                             [map EXCEPT ![face] = splice_planes(map[face], r.output, axis,
                                                                 planes, 0)],
                             xs, ys, zs, k + 1, policy)

merge_and_splice_from(m, scratch_quads, voxels, map, xs, ys, zs, k, policy) ==
    IF k > Len(FaceALL) \/ ~m.ok THEN [m |-> m, scratch |-> scratch_quads, map |-> map]
    ELSE merge_and_splice_put(merge_face(m, voxels, xs, ys, zs, FaceALL[k], policy),
                              voxels, map, xs, ys, zs, k, policy)

merge_and_splice(m, scratch_quads, voxels, map, xs, ys, zs, policy) ==
    merge_and_splice_from(m, scratch_quads, voxels, map, xs, ys, zs, 1, policy)

\* a call that panicked: the Mesher is left failed, the mesh as it was
Panicked(m, scratch_quads, map) ==
    [m |-> [m EXCEPT !.ok = FALSE], scratch |-> scratch_quads, map |-> map]

\* Mesher::remesh_slow
Mesher_remesh_slow(m, scratch_quads, voxels, transparents, map, changes, policy) ==
    LET xs == Dilate(changes.x)
        ys == Dilate(changes.y)
        zs == Dilate(changes.z)
    IN IF build_visible_slow_ok(voxels, xs, ys, zs)
       THEN merge_and_splice([m EXCEPT !.visible_masks =
                                  build_visible_slow(voxels, transparents, xs, ys, zs)],
                             scratch_quads, voxels, map, xs, ys, zs, policy)
       ELSE Panicked(m, scratch_quads, map)

\* Mesher::remesh
Mesher_remesh(m, scratch_quads, voxels, opaque_masks, transparent_masks, map, changes, policy) ==
    LET xs == Dilate(changes.x)
        ys == Dilate(changes.y)
        zs == Dilate(changes.z)
    IN IF build_visible_ok(voxels, opaque_masks, transparent_masks, xs, ys, zs)
       THEN merge_and_splice([m EXCEPT !.visible_masks =
                                  build_visible(m.visible_masks, voxels, opaque_masks,
                                                transparent_masks, xs, ys, zs)],
                             scratch_quads, voxels, map, xs, ys, zs, policy)
       ELSE Panicked(m, scratch_quads, map)

\* ------------------------------------------------------------- MeshChanges
MeshChanges_new == [x |-> {}, y |-> {}, z |-> {}]
MeshChanges_push(c, pos) ==
    [x |-> c.x \cup {pos[1]}, y |-> c.y \cup {pos[2]}, z |-> c.z \cup {pos[3]}]
MeshChanges_is_empty(c) == c.x = {}
\* clear zeroing the x word only
MeshChanges_clear_x_only(c) == [x |-> {}, y |-> c.y, z |-> c.z]

MeshChanges_clear(c) == [x |-> {}, y |-> {}, z |-> {}]

\* ------------------------------------------------------------- inputs
\* <<x, y, z>> of a 3-D index
PosOf(i_3d) == <<i_3d % LEN, (i_3d \div LEN) % LEN, i_3d \div (LEN * LEN)>>
IsInterior(pos) == pos[1] \in Interior /\ pos[2] \in Interior /\ pos[3] \in Interior

\* An irregular filling for pattern n: about half of the cells hold an id
Noise(n, x, y, z) ==
    LET h == (3 * x * x + 5 * y + 7 * z * z + x * y * z + n * (x + 2 * y + 3 * z)
              + n * n + (n \div 11) * x * z) % 11
    IN CASE h \in {0, 1, 2, 3} -> 1
         [] h = 4 -> 2
         [] h = 5 -> 3
         [] OTHER -> 0

\* The voxel buffers a run starts from, by number: a few regular shapes, then
\* irregular fillings; every fourth irregular one also fills the shell.
\* 31 is the buffer of tests::test_output, 32 two layers through the whole chunk.
PatternVoxel(n, pos) ==
    LET x == pos[1]
        y == pos[2]
        z == pos[3]
        in == IsInterior(pos)
    IN CASE n = 0 -> IF in /\ y <= 2 THEN 1 ELSE 0
         [] n = 1 -> IF in /\ y <= x /\ z <= 3 THEN 1 ELSE 0
         [] n = 2 -> IF in /\ y = 2 THEN (x + 2 * z) % 4 ELSE 0
         [] n = 3 -> IF y <= 1 THEN 1 + (x % 2) ELSE 0
         [] n = 4 -> IF ~in THEN 0 ELSE IF y <= 3 THEN 1 ELSE 2
         [] n = 5 -> 0
         [] n = 6 -> IF in THEN 1 ELSE 0
         [] n = 7 -> 1
         [] n = 31 -> IF pos \in {<<1, 1, 1>>, <<1, 2, 1>>} THEN 1 ELSE 0
         [] n = 32 -> IF y < LEN \div 2 THEN 1 ELSE 2
         [] OTHER -> IF in \/ n % 4 = 3 THEN Noise(n, x, y, z) ELSE 0

PatternBuffer(n) == [i_3d \in 0 .. CUBE - 1 |-> PatternVoxel(n, PosOf(i_3d))]

\* The transparent id sets of a run
TransparentSets == {{}, {2}, {2, 3}}

\* The edits a caller makes: an interior position and the id written there
Edits == {<<<<2, 2, 2>>, 0>>, <<<<3, 2, 2>>, 2>>, <<<<1, 6, 1>>, 3>>}

\* The u32 arguments a caller hands to Quad::new
QuadArgs == {ToU32(0), ToU32(63), ToU32(64), U32Bits}
QuadIds == {0, 1}

\* ------------------------------------------------------------- state
VARIABLES
    voxels,             \* the caller's [u16; CUBE]
    transparents,       \* the caller's HashSet<u16>
    opaque_masks,       \* the caller's opaque masks, compute_opaque_masks of voxels
    transparent_masks,  \* the caller's transparent masks
    visible_masks,      \* InnerMesher.visible_masks
    forward_merged,     \* InnerMesher.forward_merged
    upward_merged,      \* InnerMesher.upward_merged
    ok,                 \* no call has failed an overflow check
    scratch,            \* Mesher.scratch
    mesh,               \* the caller's QuadMesh
    changes,            \* the caller's MeshChanges
    hist,               \* the Mesher calls since (and with) the last full mesh of `mesh`
    nEdits,             \* edits so far
    nCalls,             \* Mesher calls so far
    sortPolicy,         \* the tie order of sort_unstable_by_key in this run
    quad_args,          \* <<x, y, z, w, h, id>> for Quad::new
    quad,               \* the Quad it returned
    face_byte,          \* the u8 handed to Face::try_from
    face_tried,         \* the Result it returned
    pushed              \* the argument of the last MeshChanges::push of SpecChanges

callerVars == <<voxels, transparents, opaque_masks, transparent_masks>>
mesherVars == <<visible_masks, forward_merged, upward_merged, ok, scratch>>
quadVars == <<quad_args, quad>>
faceVars == <<face_byte, face_tried>>
vars == <<voxels, transparents, opaque_masks, transparent_masks, visible_masks,
          forward_merged, upward_merged, ok, scratch, mesh, changes, hist, nEdits, nCalls,
          sortPolicy, quad_args, quad, face_byte, face_tried, pushed>>

Inner == [visible_masks |-> visible_masks, forward_merged |-> forward_merged,
          upward_merged |-> upward_merged, ok |-> ok]

\* Mesher::default()
DefaultInner == [visible_masks |-> ZeroVisible, forward_merged |-> ZeroForward,
                 upward_merged |-> ZeroUpward, ok |-> TRUE]

EmptyMesh == [face \in Face |-> <<>>]
NoQuad == [other |-> {}, id |-> 0]
NoQuadArgs == <<{}, {}, {}, {}, {}, 0>>
\* no byte has been handed to Face::try_from yet
NoByte == 0 - 1
NoResult == <<"None", "None">>
\* no position has been pushed since the MeshChanges was made or cleared
NoPush == <<>>

\* A new Mesher, no mesh yet, no change recorded, over the buffer of pattern n
\* with its masks computed
InitWith(runs) ==
    /\ \E run \in runs :
          /\ voxels = PatternBuffer(run[1])
          /\ transparents = run[2]
          /\ sortPolicy = run[3]
    /\ opaque_masks = compute_opaque_masks(voxels, transparents)
    /\ transparent_masks = compute_transparent_masks(voxels, transparents)
    /\ visible_masks = DefaultInner.visible_masks
    /\ forward_merged = DefaultInner.forward_merged
    /\ upward_merged = DefaultInner.upward_merged
    /\ ok = TRUE
    /\ scratch = <<>>
    /\ mesh = EmptyMesh
    /\ changes = MeshChanges_new
    /\ hist = <<>>
    /\ nEdits = 0
    /\ nCalls = 0
    /\ quad_args = NoQuadArgs
    /\ quad = NoQuad
    /\ face_byte = NoByte
    /\ face_tried = NoResult
    /\ pushed = NoPush

\* <<pattern, transparent ids, sort policy>> of the runs with edits
Runs == {<<0, {2, 3}, "stable">>, <<1, {}, "unstable">>, <<2, {2, 3}, "unstable">>,
         <<11, {2}, "stable">>, <<8, {2, 3}, "unstable">>, <<12, {}, "stable">>}

Init == InitWith(Runs)

\* The caller writes a voxel, records the position (changes.push(pos)) and
\* recomputes both masks
SetVoxel(pos, id) ==
    /\ nEdits < MaxEdits
    /\ voxels[linearize_3d(pos[1], pos[2], pos[3])] # id
    /\ voxels' = [voxels EXCEPT ![linearize_3d(pos[1], pos[2], pos[3])] = id]
    /\ opaque_masks' = compute_opaque_masks(voxels', transparents)
    /\ transparent_masks' = compute_transparent_masks(voxels', transparents)
    /\ changes' = MeshChanges_push(changes, pos)
    /\ nEdits' = nEdits + 1
    /\ UNCHANGED <<transparents, mesherVars, mesh, hist, nCalls, sortPolicy, quadVars, faceVars,
                   pushed>>

SetInner(m) ==
    /\ visible_masks' = m.visible_masks
    /\ forward_merged' = m.forward_merged
    /\ upward_merged' = m.upward_merged
    /\ ok' = m.ok

\* r = [m, map] of mesh or slow_mesh: the new mesh
Meshed(r) ==
    /\ SetInner(r.m)
    /\ mesh' = r.map

\* r = [m, scratch, map] of remesh or remesh_slow: the mesh spliced in place
Remeshed(r) ==
    /\ SetInner(r.m)
    /\ scratch' = r.scratch
    /\ mesh' = r.map

\* mesh = mesher.mesh(&voxels, &opaque_masks, &transparent_masks), then changes.clear()
Mesh ==
    /\ nCalls < MaxCalls
    /\ ok
    /\ Meshed(Mesher_mesh(Inner, voxels, opaque_masks, transparent_masks, sortPolicy))
    /\ changes' = MeshChanges_clear(changes)
    /\ hist' = <<"mesh">>
    /\ nCalls' = nCalls + 1
    /\ UNCHANGED <<callerVars, scratch, nEdits, sortPolicy, quadVars, faceVars, pushed>>

\* mesh = mesher.slow_mesh(&voxels, &transparents), then changes.clear()
SlowMesh ==
    /\ nCalls < MaxCalls
    /\ ok
    /\ Meshed(Mesher_slow_mesh(Inner, voxels, transparents, sortPolicy))
    /\ changes' = MeshChanges_clear(changes)
    /\ hist' = <<"slow_mesh">>
    /\ nCalls' = nCalls + 1
    /\ UNCHANGED <<callerVars, scratch, nEdits, sortPolicy, quadVars, faceVars, pushed>>

\* mesher.remesh(&voxels, &opaque_masks, &transparent_masks, &mut mesh, changes),
\* then changes.clear()
Remesh ==
    /\ nCalls < MaxCalls
    /\ ok
    /\ hist # <<>>
    /\ Remeshed(Mesher_remesh(Inner, scratch, voxels, opaque_masks, transparent_masks,
                               mesh, changes, sortPolicy))
    /\ changes' = MeshChanges_clear(changes)
    /\ hist' = Append(hist, "remesh")
    /\ nCalls' = nCalls + 1
    /\ UNCHANGED <<callerVars, nEdits, sortPolicy, quadVars, faceVars, pushed>>

\* mesher.remesh_slow(&voxels, &transparents, &mut mesh, changes), then changes.clear()
RemeshSlow ==
    /\ nCalls < MaxCalls
    /\ ok
    /\ hist # <<>>
    /\ Remeshed(Mesher_remesh_slow(Inner, scratch, voxels, transparents, mesh, changes,
                                    sortPolicy))
    /\ changes' = MeshChanges_clear(changes)
    /\ hist' = Append(hist, "remesh_slow")
    /\ nCalls' = nCalls + 1
    /\ UNCHANGED <<callerVars, nEdits, sortPolicy, quadVars, faceVars, pushed>>

Next ==
    \/ \E e \in Edits : SetVoxel(e[1], e[2])
    \/ Mesh
    \/ SlowMesh
    \/ Remesh
    \/ RemeshSlow

\* Edits and Mesher calls in any order, on a few starting buffers
Spec == Init /\ [][Next]_vars

\* One full mesh, fast or slow, of each of many starting buffers
InitMesh == InitWith((0 .. MaxWidePattern) \X TransparentSets \X SortPolicies)
NextMesh ==
    \/ nCalls = 0 /\ Mesh
    \/ nCalls = 0 /\ SlowMesh
SpecMesh == InitMesh /\ [][NextMesh]_vars

\* Quad::new on every combination of the argument values
InitQuad == InitWith({<<5, {}, "stable">>})
QuadNew(x, y, z, w, h, id) ==
    /\ quad_args = NoQuadArgs
    /\ quad_args' = <<x, y, z, w, h, id>>
    /\ quad' = Quad_new(x, y, z, w, h, id)
    /\ UNCHANGED <<callerVars, mesherVars, mesh, changes, hist, nEdits, nCalls, sortPolicy,
                   faceVars, pushed>>
NextQuad ==
    \E x \in QuadArgs, y \in QuadArgs, z \in QuadArgs, w \in QuadArgs, h \in QuadArgs,
       id \in QuadIds : QuadNew(x, y, z, w, h, id)
SpecQuad == InitQuad /\ [][NextQuad]_vars

\* Face::try_from on every byte
InitFace == InitWith({<<5, {}, "stable">>})
TryFrom(value) ==
    /\ face_byte = NoByte
    /\ face_byte' = value
    /\ face_tried' = Face_try_from(value)
    /\ UNCHANGED <<callerVars, mesherVars, mesh, changes, hist, nEdits, nCalls, sortPolicy,
                   quadVars, pushed>>
NextFace == \E value \in 0 .. U8_MAX : TryFrom(value)
SpecFace == InitFace /\ [][NextFace]_vars

\* The coordinates of the positions pushed on a MeshChanges alone
ChangeCoords == {0, 3, LEN - 1}

\* MeshChanges::new, push and clear in any order
InitChanges == InitWith({<<5, {}, "stable">>})
ChangesNew ==
    /\ changes' = MeshChanges_new
    /\ pushed' = NoPush
    /\ UNCHANGED <<callerVars, mesherVars, mesh, hist, nEdits, nCalls, sortPolicy, quadVars,
                   faceVars>>
ChangesPush(pos) ==
    /\ changes' = MeshChanges_push(changes, pos)
    /\ pushed' = pos
    /\ UNCHANGED <<callerVars, mesherVars, mesh, hist, nEdits, nCalls, sortPolicy, quadVars,
                   faceVars>>
ChangesClear ==
    /\ changes' = MeshChanges_clear(changes)
    /\ pushed' = NoPush
    /\ UNCHANGED <<callerVars, mesherVars, mesh, hist, nEdits, nCalls, sortPolicy, quadVars,
                   faceVars>>
NextChanges ==
    \/ ChangesNew
    \/ \E x \in ChangeCoords, y \in ChangeCoords, z \in ChangeCoords : ChangesPush(<<x, y, z>>)
    \/ ChangesClear
SpecChanges == InitChanges /\ [][NextChanges]_vars

\* <<buffer pattern, pattern the masks were computed from, transparent ids,
\* sort policy>>: buffers with a filled shell, masks of the buffer or of another
TotalRuns == {<<7, 7, {}, "stable">>, <<11, 11, {2}, "unstable">>, <<32, 32, {2}, "stable">>,
              <<15, 10, {2, 3}, "stable">>, <<3, 12, {}, "unstable">>}

\* The positions a caller pushes: border coordinates 0 and LEN - 1 included
PushPositions == {<<0, 0, 0>>, <<LEN - 1, LEN - 1, LEN - 1>>, <<1, LEN - 2, 4>>}

InitTotal ==
    /\ \E run \in TotalRuns :
          /\ voxels = PatternBuffer(run[1])
          /\ transparents = run[3]
          /\ opaque_masks = compute_opaque_masks(PatternBuffer(run[2]), run[3])
          /\ transparent_masks = compute_transparent_masks(PatternBuffer(run[2]), run[3])
          /\ sortPolicy = run[4]
    /\ visible_masks = DefaultInner.visible_masks
    /\ forward_merged = DefaultInner.forward_merged
    /\ upward_merged = DefaultInner.upward_merged
    /\ ok = TRUE
    /\ scratch = <<>>
    /\ mesh = EmptyMesh
    /\ changes = MeshChanges_new
    /\ hist = <<>>
    /\ nEdits = 0
    /\ nCalls = 0
    /\ quad_args = NoQuadArgs
    /\ quad = NoQuad
    /\ face_byte = NoByte
    /\ face_tried = NoResult
    /\ pushed = NoPush

\* changes.push(pos) with no edit behind it
Push(pos) ==
    /\ nEdits < MaxEdits
    /\ changes' = MeshChanges_push(changes, pos)
    /\ nEdits' = nEdits + 1
    /\ UNCHANGED <<callerVars, mesherVars, mesh, hist, nCalls, sortPolicy, quadVars, faceVars,
                   pushed>>

NextTotal ==
    \/ \E pos \in PushPositions : Push(pos)
    \/ Mesh
    \/ SlowMesh
    \/ Remesh
    \/ RemeshSlow

\* Pushes of any position and Mesher calls in any order, on filled-shell buffers
SpecTotal == InitTotal /\ [][NextTotal]_vars

\* ------------------------------------------------------------- properties
\* The 1-voxel shell of the buffer is empty
ShellEmpty == \A i_3d \in 0 .. CUBE - 1 : IsInterior(PosOf(i_3d)) \/ voxels[i_3d] = 0

\* The positions of the non-empty voxels
NonEmptyCells == {PosOf(i_3d) : i_3d \in {i \in 0 .. CUBE - 1 : voxels[i] # 0}}

IsOpaqueId(id) == id # 0 /\ id \notin transparents

\* Face `face` of the non-empty voxel at pos is exposed: an opaque voxel's
\* neighbour is not opaque; a transparent voxel's neighbour is not opaque and
\* has a different id
Exposed(pos, face) ==
    LET i_3d == linearize_3d(pos[1], pos[2], pos[3])
        voxel == voxels[i_3d]
        adj_voxel == voxels[i_3d + offset_3d(face)]
    IN IF IsOpaqueId(voxel)
       THEN ~IsOpaqueId(adj_voxel)
       ELSE ~IsOpaqueId(adj_voxel) /\ adj_voxel # voxel

\* The cells a quad of the face-`face` list covers: w cells along z and h along
\* y for +/-X, w along x and h along z for +/-Y, w along x and h along y for +/-Z
Cells(q, face) ==
    LET x == Quad_x(q)
        y == Quad_y(q)
        z == Quad_z(q)
        w == Quad_w(q)
        h == Quad_h(q)
    IN CASE FaceAxis(face) = "x" -> {<<x, b, a>> : a \in z .. z + w - 1, b \in y .. y + h - 1}
         [] FaceAxis(face) = "y" -> {<<a, y, b>> : a \in x .. x + w - 1, b \in z .. z + h - 1}
         [] FaceAxis(face) = "z" -> {<<a, b, z>> : a \in x .. x + w - 1, b \in y .. y + h - 1}

\* <<i, cell>> for every quad i of the list and every cell it covers
Covering(quads, face) ==
    UNION {{<<i, c>> : c \in Cells(quads[i], face)} : i \in 1 .. Len(quads)}

\* The cells that exactly one quad of the list covers
CoveredOnce(quads, face) ==
    LET P == Covering(quads, face)
        Cov == {pr[2] : pr \in P}
    IN IF Cardinality(P) = Cardinality(Cov)
       THEN Cov
       ELSE {c \in Cov : Cardinality({pr \in P : pr[2] = c}) = 1}

\* C1: mesh over the computed masks returns the QuadMesh slow_mesh returns for
\* the same buffer and transparent set, list for list, quad for quad, in order
\* (each compared with the other on a new Mesher).
C1_MeshEqualsSlowMesh ==
    /\ hist = <<"mesh">> =>
          mesh = Mesher_slow_mesh(DefaultInner, voxels, transparents, sortPolicy).map
    /\ hist = <<"slow_mesh">> =>
          mesh = Mesher_mesh(DefaultInner, voxels, compute_opaque_masks(voxels, transparents),
                             compute_transparent_masks(voxels, transparents), sortPolicy).map

\* a fast mesh of a buffer that holds transparent voxels next to opaque ones
\* and gave more than twenty +X quads
C1_Witness ==
    /\ hist = <<"mesh">>
    /\ transparents = {2, 3}
    /\ \E i \in 0 .. CUBE - 2 : voxels[i] = 2 /\ voxels[i + 1] = 1
    /\ Len(mesh["PosX"]) > 20

\* C2: after mesh or slow_mesh of a chunk with an empty shell, face f of a
\* non-empty voxel p is exposed iff exactly one quad of the face-f list covers p.
C2_Coverage ==
    (hist # <<>> /\ ShellEmpty) =>
        \A face \in Face :
            {p \in NonEmptyCells : Exposed(p, face)}
                = CoveredOnce(mesh[face], face) \cap NonEmptyCells

\* a mesh of an empty-shell buffer in which some quad covers several cells and
\* some non-empty voxel has a hidden +Y face
C2_Witness ==
    /\ hist # <<>>
    /\ ShellEmpty
    /\ \E i \in 1 .. Len(mesh["PosY"]) : Cardinality(Cells(mesh["PosY"][i], "PosY")) > 2
    /\ \E p \in NonEmptyCells : ~Exposed(p, "PosY")

\* C3: in a QuadMesh returned by mesh or slow_mesh no cell is covered by two
\* quads of the same face list: the cells a list covers are as many as the
\* <<quad, cell>> pairs of the list.
C3_NonOverlap ==
    hist # <<>> =>
        \A face \in Face :
            LET P == Covering(mesh[face], face)
            IN Cardinality({pr[2] : pr \in P}) = Cardinality(P)

\* a mesh with two quads of one list in the same plane
C3_Witness ==
    /\ hist # <<>>
    /\ \E i, j \in 1 .. Len(mesh["NegZ"]) :
          i < j /\ Quad_z(mesh["NegZ"][i]) = Quad_z(mesh["NegZ"][j])

\* hist is one full mesh by `first` and then one or more calls, all of them `then`
RoundsOf(first, then) ==
    /\ Len(hist) >= 2
    /\ hist[1] = first
    /\ \A i \in 2 .. Len(hist) : hist[i] = then

\* C4: a mesh made by mesh of an empty-shell buffer and then kept up by remesh,
\* one call for each round of interior edits with every edited position pushed,
\* has the quad lists that mesh produces from scratch for the edited buffer.
C4_RemeshEqualsMesh ==
    (RoundsOf("mesh", "remesh") /\ MeshChanges_is_empty(changes) /\ ShellEmpty) =>
        mesh = Mesher_mesh(DefaultInner, voxels, opaque_masks, transparent_masks,
                           sortPolicy).map

\* C4 where the sort of merge_x and merge_y keeps equal keys in order
C4_RemeshEqualsMeshStableSort ==
    sortPolicy = "stable" => C4_RemeshEqualsMesh

\* C5: a mesh of an empty-shell buffer kept up by remesh_slow, one call for each
\* round of interior edits with every edited position pushed, has the quad
\* lists that slow_mesh produces from scratch for the edited buffer, the quads
\* of the respliced planes far from the edits included (stated for the runs
\* whose sort keeps equal keys in order).
C5_RemeshSlowEqualsSlowMesh ==
    (/\ sortPolicy = "stable"
     /\ RoundsOf("mesh", "remesh_slow") \/ RoundsOf("slow_mesh", "remesh_slow")
     /\ MeshChanges_is_empty(changes)
     /\ ShellEmpty) =>
        mesh = Mesher_slow_mesh(DefaultInner, voxels, transparents, sortPolicy).map

\* C6: after mesh or slow_mesh and after any remesh / remesh_slow calls that
\* follow on that mesh, the +/-X lists are sorted nondecreasing by quad x, the
\* +/-Y lists by quad y and the +/-Z lists by quad z.
C6_MonotoneOrdering ==
    hist # <<>> => \A face \in Face : IsSortedByKey(mesh[face], FaceAxis(face))

\* a mesh after a remesh and a remesh_slow whose -X list holds several planes
C6_Witness ==
    /\ Len(hist) = 3
    /\ \E i \in 2 .. 3 : hist[i] = "remesh"
    /\ \E i \in 2 .. 3 : hist[i] = "remesh_slow"
    /\ nEdits = MaxEdits
    /\ Cardinality({Quad_x(mesh["NegX"][i]) : i \in 1 .. Len(mesh["NegX"])}) >= 3

\* C7: after every call of mesh, slow_mesh, remesh and remesh_slow every entry
\* of forward_merged and of upward_merged is zero.
C7_Quiescence ==
    /\ forward_merged = ZeroForward
    /\ upward_merged = ZeroUpward

\* after three calls, the last an incremental one after edits, with a quad that
\* was merged both ways on the +Z list
C7_Witness ==
    /\ nCalls = MaxCalls
    /\ Len(hist) >= 2
    /\ scratch # <<>>
    /\ \E i \in 1 .. Len(mesh["PosZ"]) :
          Quad_w(mesh["PosZ"][i]) > 1 /\ Quad_h(mesh["PosZ"][i]) > 1

\* C8: mesh on a Mesher that earlier calls have used returns the QuadMesh that
\* the same call returns on a new Mesher (read when mesh has just returned,
\* before the caller edits the buffer again).
C8_HistoryIndependence ==
    (hist = <<"mesh">> /\ MeshChanges_is_empty(changes)) =>
        mesh = Mesher_mesh(DefaultInner, voxels, opaque_masks, transparent_masks,
                           sortPolicy).map

\* a mesh as third call, after an incremental call that followed an edit, with
\* visibility masks left by the earlier calls that were not all zero
C8_Witness ==
    /\ hist = <<"mesh">>
    /\ MeshChanges_is_empty(changes)
    /\ nCalls = MaxCalls
    /\ nEdits = MaxEdits
    /\ scratch # <<>>

\* C9: over the whole coordinate range, bit x of opaque_masks[y | z << BITS] is
\* set iff the voxel at (x, y, z) is non-zero and not transparent, and bit x of
\* transparent_masks[y | z << BITS] iff it is non-zero and transparent; the two
\* masks are disjoint and their union marks the non-zero voxels.
C9_MaskCorrectness ==
    \A y \in 0 .. LEN - 1, z \in 0 .. LEN - 1 :
        LET i_2d == linearize_2d(y, z)
        IN /\ \A x \in 0 .. LEN - 1 :
                 LET v == voxels[linearize_3d(x, y, z)]
                 IN /\ x \in opaque_masks[i_2d] <=> (v # 0 /\ v \notin transparents)
                    /\ x \in transparent_masks[i_2d] <=> (v # 0 /\ v \in transparents)
           /\ opaque_masks[i_2d] \cap transparent_masks[i_2d] = {}
           /\ opaque_masks[i_2d] \cup transparent_masks[i_2d]
                 = {x \in 0 .. LEN - 1 : voxels[linearize_3d(x, y, z)] # 0}

\* masks recomputed after an edit that wrote a transparent id, in a buffer with
\* opaque voxels too
C9_Witness ==
    /\ nEdits > 0
    /\ voxels[linearize_3d(3, 2, 2)] = 2
    /\ 2 \in transparents
    /\ 3 \in transparent_masks[linearize_2d(2, 2)]
    /\ \E i_2d \in 0 .. SQUARE - 1 : opaque_masks[i_2d] # {}

\* v mod 64 of a u32
Mod64(v) == FieldValue(v, 0, MASK_6)

\* C10: for all u32 arguments, 64 and more included, the accessors of
\* Quad::new(x, y, z, w, h, id) return each argument modulo 64.
C10_QuadRoundTrip ==
    quad_args # NoQuadArgs =>
        /\ Quad_x(quad) = Mod64(quad_args[1])
        /\ Quad_y(quad) = Mod64(quad_args[2])
        /\ Quad_z(quad) = Mod64(quad_args[3])
        /\ Quad_w(quad) = Mod64(quad_args[4])
        /\ Quad_h(quad) = Mod64(quad_args[5])

\* C10 for arguments below 64
C10_QuadRoundTripInRange ==
    (/\ quad_args # NoQuadArgs
     /\ \A i \in 1 .. 5 : quad_args[i] \subseteq 0 .. 5) => C10_QuadRoundTrip

\* C11: Face::try_from(b) is Ok exactly for b <= 5, with the face whose
\* discriminant is b (PosX, NegX, PosY, NegY, PosZ, NegZ for 0..5), and is
\* Err(GreaterThanFive) for every other byte.
C11_FaceTryFrom ==
    face_byte # NoByte =>
        /\ face_tried[1] = "Ok" <=> face_byte <= 5
        /\ face_byte <= 5 =>
              /\ face_tried[2] = FaceALL[face_byte + 1]
              /\ Face_discriminant(face_tried[2]) = face_byte
        /\ face_byte > 5 => face_tried = <<"Err", "GreaterThanFive">>

\* the first byte that is refused
C11_Witness ==
    /\ face_byte = 6
    /\ face_tried[1] = "Err"

\* x, y, z, w, h and id of a quad
QuadFields(q) == <<Quad_x(q), Quad_y(q), Quad_z(q), Quad_w(q), Quad_h(q), q.id>>

\* The shell is empty and the whole interior holds the one opaque id `id`
FullInterior(id) ==
    /\ IsOpaqueId(id)
    /\ \A i_3d \in 0 .. CUBE - 1 :
          voxels[i_3d] = IF IsInterior(PosOf(i_3d)) THEN id ELSE 0

\* C12: an empty shell around an interior filled with one opaque id gives six
\* lists of one quad each, of size (LEN - 2, LEN - 2), on the hull: plane
\* x = LEN - 2 for +X and x = 1 for -X with origin y = z = 1, and likewise for
\* the y and z faces (62 is LEN - 2 of the source).
C12_FullInteriorSixQuads ==
    \A id \in 1 .. 3 :
        (hist = <<"mesh">> /\ FullInterior(id)) =>
            /\ \A face \in Face : Len(mesh[face]) = 1
            /\ QuadFields(mesh["PosX"][1]) = <<LEN - 2, 1, 1, LEN - 2, LEN - 2, id>>
            /\ QuadFields(mesh["NegX"][1]) = <<1, 1, 1, LEN - 2, LEN - 2, id>>
            /\ QuadFields(mesh["PosY"][1]) = <<1, LEN - 2, 1, LEN - 2, LEN - 2, id>>
            /\ QuadFields(mesh["NegY"][1]) = <<1, 1, 1, LEN - 2, LEN - 2, id>>
            /\ QuadFields(mesh["PosZ"][1]) = <<1, 1, LEN - 2, LEN - 2, LEN - 2, id>>
            /\ QuadFields(mesh["NegZ"][1]) = <<1, 1, 1, LEN - 2, LEN - 2, id>>

\* the filled interior has been meshed
C12_Witness ==
    /\ hist = <<"mesh">>
    /\ FullInterior(1)
    /\ Len(mesh["PosZ"]) = 1

\* Every voxel of the chunk, shell included, holds the one opaque id `id`
FullChunk(id) ==
    /\ IsOpaqueId(id)
    /\ \A i_3d \in 0 .. CUBE - 1 : voxels[i_3d] = id

\* C13 as stated: a full chunk gives six quads, one per face, each of size
\* LEN x LEN (64 x 64 in the source).
C13_FullChunkSixQuads ==
    \A id \in 1 .. 3 :
        (hist = <<"mesh">> /\ FullChunk(id)) =>
            \A face \in Face :
                /\ Len(mesh[face]) = 1
                /\ Quad_w(mesh[face][1]) = LEN
                /\ Quad_h(mesh[face][1]) = LEN

\* C13 amended: a full chunk gives the empty mesh, six empty lists: every face
\* of an interior voxel is hidden by an opaque neighbour and the voxels of the
\* shell are not meshed.
C13_FullChunkEmptyMesh ==
    \A id \in 1 .. 3 :
        (hist = <<"mesh">> /\ FullChunk(id)) => mesh = EmptyMesh

\* the full chunk has been meshed
C13_Witness ==
    /\ hist = <<"mesh">>
    /\ FullChunk(1)
    /\ \A y \in Interior, z \in Interior : opaque_masks[linearize_2d(y, z)] = ALL_ONES

\* The buffer of tests::test_output: (1,1,1) and (1,2,1) hold id 1, no transparents
TwoVoxels ==
    /\ transparents = {}
    /\ \A i_3d \in 0 .. CUBE - 1 :
          voxels[i_3d] = IF PosOf(i_3d) \in {<<1, 1, 1>>, <<1, 2, 1>>} THEN 1 ELSE 0

\* C14: for the two voxels (1,1,1) and (1,2,1) mesh returns one quad per face:
\* +X at (2,1,1) size (1,2), -X at (1,1,1) size (1,2), +Y at (1,3,1) size (1,1),
\* -Y at (2,1,1) size (1,1), +Z and -Z of size (1,2), all of id 1.
C14_TwoVoxelQuads ==
    (hist = <<"mesh">> /\ TwoVoxels) =>
        /\ \A face \in Face : Len(mesh[face]) = 1
        /\ QuadFields(mesh["PosX"][1]) = <<2, 1, 1, 1, 2, 1>>
        /\ QuadFields(mesh["NegX"][1]) = <<1, 1, 1, 1, 2, 1>>
        /\ QuadFields(mesh["PosY"][1]) = <<1, 3, 1, 1, 1, 1>>
        /\ QuadFields(mesh["NegY"][1]) = <<2, 1, 1, 1, 1, 1>>
        /\ \A face \in {"PosZ", "NegZ"} :
              /\ Quad_w(mesh[face][1]) = 1
              /\ Quad_h(mesh[face][1]) = 2
              /\ mesh[face][1].id = 1

\* What mesh returns for the two voxels: every quad at the coordinates of the
\* voxel it starts at, the +X, +Y and -Y ones too
C14_TwoVoxelQuadsAtVoxel ==
    (hist = <<"mesh">> /\ TwoVoxels) =>
        /\ \A face \in Face : Len(mesh[face]) = 1
        /\ QuadFields(mesh["PosX"][1]) = <<1, 1, 1, 1, 2, 1>>
        /\ QuadFields(mesh["NegX"][1]) = <<1, 1, 1, 1, 2, 1>>
        /\ QuadFields(mesh["PosY"][1]) = <<1, 2, 1, 1, 1, 1>>
        /\ QuadFields(mesh["NegY"][1]) = <<1, 1, 1, 1, 1, 1>>
        /\ QuadFields(mesh["PosZ"][1]) = <<1, 1, 1, 1, 2, 1>>
        /\ QuadFields(mesh["NegZ"][1]) = <<1, 1, 1, 1, 2, 1>>

\* The face that looks back at `face`
Opposite(face) ==
    CASE face = "PosX" -> "NegX"
      [] face = "NegX" -> "PosX"
      [] face = "PosY" -> "NegY"
      [] face = "NegY" -> "PosY"
      [] face = "PosZ" -> "NegZ"
      [] face = "NegZ" -> "PosZ"

\* The cells that some quad of the list covers
Covered(quads, face) == {pr[2] : pr \in Covering(quads, face)}

\* <<p, face, q>>: the interior voxel at p is opaque and its neighbour q in
\* direction face, interior too, is transparent
OpaqueNextToTransparent ==
    {t \in {<<PosOf(i_3d), face, PosOf(i_3d + offset_3d(face))>> :
                i_3d \in {i \in 0 .. CUBE - 1 : IsInterior(PosOf(i))}, face \in Face} :
        /\ IsInterior(t[3])
        /\ IsOpaqueId(voxels[linearize_3d(t[1][1], t[1][2], t[1][3])])
        /\ voxels[linearize_3d(t[3][1], t[3][2], t[3][3])] \in transparents}

\* C15 as stated: where an opaque voxel and a transparent voxel are adjacent,
\* both facing faces are meshed: the opaque voxel's on the list of the face
\* towards the transparent one, the transparent voxel's on the opposite list
\* (an opaque layer of id 1 below a transparent layer of id 2: +Y and -Y).
C15_BothSidesOfInterface ==
    hist # <<>> =>
        \A t \in OpaqueNextToTransparent :
            /\ t[1] \in Covered(mesh[t[2]], t[2])
            /\ t[3] \in Covered(mesh[Opposite(t[2])], Opposite(t[2]))

\* C15 amended: of the two facing faces only the opaque voxel's is meshed; the
\* transparent voxel's face towards the opaque voxel is hidden.
C15_OpaqueSideOfInterface ==
    hist # <<>> =>
        \A t \in OpaqueNextToTransparent :
            /\ t[1] \in Covered(mesh[t[2]], t[2])
            /\ t[3] \notin Covered(mesh[Opposite(t[2])], Opposite(t[2]))

\* the two layers through the whole chunk, the upper one transparent, meshed:
\* the +Y list holds the top of layer 1
C15_Witness ==
    /\ hist = <<"mesh">>
    /\ 2 \in transparents
    /\ \A i_3d \in 0 .. CUBE - 1 :
          voxels[i_3d] = IF PosOf(i_3d)[2] < LEN \div 2 THEN 1 ELSE 2
    /\ <<1, LEN \div 2 - 1, 1>> \in Covered(mesh["PosY"], "PosY")
    /\ OpaqueNextToTransparent # {}

\* C16: in a QuadMesh returned by mesh or slow_mesh every cell inside the
\* rectangle of a quad of the face-f list is an interior cell that holds a
\* non-empty voxel whose face f is exposed and whose id is the quad's id.
C16_QuadCellsUniform ==
    hist # <<>> =>
        \A face \in Face :
            \A i \in 1 .. Len(mesh[face]) :
                \A c \in Cells(mesh[face][i], face) :
                    /\ IsInterior(c)
                    /\ voxels[linearize_3d(c[1], c[2], c[3])] # 0
                    /\ voxels[linearize_3d(c[1], c[2], c[3])] = mesh[face][i].id
                    /\ Exposed(c, face)

\* a mesh with a quad merged rightward that stops where the next visible cell
\* of its row holds another id
C16_Witness ==
    /\ hist # <<>>
    /\ \E i \in 1 .. Len(mesh["PosY"]) :
          LET q == mesh["PosY"][i]
              next_x == Quad_x(q) + Quad_w(q)
          IN /\ Quad_w(q) > 1
             /\ next_x \in Interior
             /\ voxels[linearize_3d(next_x, Quad_y(q), Quad_z(q))] \notin {0, q.id}
             /\ <<next_x, Quad_y(q), Quad_z(q)>> \in Covered(mesh["PosY"], "PosY")

\* C17: no call of mesh, slow_mesh, remesh or remesh_slow fails, whatever the
\* shell holds, whatever the masks are and whatever positions were pushed: no
\* array is read outside its bounds, no u8 counter overflows, no subtraction
\* underflows (ok); the visible words the merge loops walk hold interior bits
\* only, in interior rows only, so their indices stay inside the arrays.
C17_NoCallFails ==
    /\ ok
    /\ \A face \in Face, i_2d \in 0 .. SQUARE - 1 :
          /\ visible_masks[face][i_2d] \subseteq Interior
          /\ (i_2d % LEN \notin Interior \/ i_2d \div LEN \notin Interior)
                => visible_masks[face][i_2d] = {}

\* a remesh that returned after pushes of the two corner positions, on a
\* buffer whose shell is filled
C17_Witness ==
    /\ ok
    /\ Len(hist) >= 2
    /\ hist[Len(hist)] = "remesh"
    /\ nEdits = MaxEdits
    /\ voxels[0] # 0
    /\ visible_masks["PosY"] # ZeroVisible["PosY"]
    /\ scratch # <<>>

\* The quad lies in the interior: origin and size within 1..LEN-2 and the
\* rectangle not past LEN-1 along its two tangent axes
QuadInInterior(q, face) ==
    /\ {Quad_x(q), Quad_y(q), Quad_z(q), Quad_w(q), Quad_h(q)} \subseteq Interior
    /\ CASE FaceAxis(face) = "x" ->
               Quad_z(q) + Quad_w(q) <= LEN - 1 /\ Quad_y(q) + Quad_h(q) <= LEN - 1
         [] FaceAxis(face) = "y" ->
               Quad_x(q) + Quad_w(q) <= LEN - 1 /\ Quad_z(q) + Quad_h(q) <= LEN - 1
         [] FaceAxis(face) = "z" ->
               Quad_x(q) + Quad_w(q) <= LEN - 1 /\ Quad_y(q) + Quad_h(q) <= LEN - 1

\* The accessors of q return the values Quad::new was given: packing them
\* again gives q, so no argument had a bit outside its field
QuadFieldsExact(q) ==
    q = Quad_new(ToU32(Quad_x(q)), ToU32(Quad_y(q)), ToU32(Quad_z(q)), ToU32(Quad_w(q)),
                 ToU32(Quad_h(q)), q.id)

\* C18: every quad that mesh, slow_mesh, remesh or remesh_slow has put in the
\* mesh or in the scratch Vec has 1 <= x, y, z <= LEN-2 and 1 <= w, h <= LEN-2
\* (62 in the source), its rectangle ends inside the interior, and its fields
\* hold the values that were passed to Quad::new.
C18_QuadsInRange ==
    /\ \A face \in Face :
          \A i \in 1 .. Len(mesh[face]) :
              QuadInInterior(mesh[face][i], face) /\ QuadFieldsExact(mesh[face][i])
    /\ \A i \in 1 .. Len(scratch) :
          QuadInInterior(scratch[i], "NegZ") /\ QuadFieldsExact(scratch[i])

\* after a remesh that followed an edit, a quad that reaches the last interior
\* cell along both of its tangent axes
C18_Witness ==
    /\ Len(hist) >= 2
    /\ nEdits > 0
    /\ scratch # <<>>
    /\ \E i \in 1 .. Len(mesh["PosY"]) :
          LET q == mesh["PosY"][i]
          IN /\ Quad_x(q) + Quad_w(q) = LEN - 1
             /\ Quad_z(q) + Quad_h(q) = LEN - 1
             /\ Quad_w(q) > 1
             /\ Quad_h(q) > 1

\* The quads of the list whose primary coordinate is not one of `planes`, in
\* their order
OutsidePlanes(quads, axis, planes) ==
    LET Kept(q) == QuadKey(q, axis) \notin planes
    IN SelectSeq(quads, Kept)

\* The axis word of a MeshChanges
ChangesWord(c, axis) ==
    CASE axis = "x" -> c.x
      [] axis = "y" -> c.y
      [] axis = "z" -> c.z

\* C19: a remesh or remesh_slow call changes a face list only in the dilated
\* change planes of the face's axis: the quads of every other plane are the
\* same, in the same order, before and after; with an empty MeshChanges the
\* whole mesh is unchanged.
C19_RemeshFrame ==
    [][(Len(hist') >= 2 /\ hist' # hist) =>
          /\ \A face \in Face :
                OutsidePlanes(mesh'[face], FaceAxis(face),
                              Dilate(ChangesWord(changes, FaceAxis(face))))
                    = OutsidePlanes(mesh[face], FaceAxis(face),
                                    Dilate(ChangesWord(changes, FaceAxis(face))))
          /\ changes = MeshChanges_new => mesh' = mesh]_vars

\* after one edit and a remesh of a mesh whose -X list holds more planes than
\* one edit dilates to
C19_Witness ==
    /\ Len(hist) >= 2
    /\ nEdits = 1
    /\ scratch # <<>>
    /\ Cardinality({Quad_x(mesh["NegX"][i]) : i \in 1 .. Len(mesh["NegX"])}) >= 4

\* The three words of the MeshChanges are zero together or non-zero together,
\* and is_empty is true exactly when all three are zero
WordsTogether(c) ==
    /\ c.x = {} <=> c.y = {}
    /\ c.y = {} <=> c.z = {}
    /\ MeshChanges_is_empty(c) <=> (c.x = {} /\ c.y = {} /\ c.z = {})

\* C20: after any sequence of new, push and clear the three words are zero
\* together or non-zero together, so is_empty, which reads the x word, is true
\* iff no plane is recorded on any axis; and a push of [x, y, z] sets bit x of
\* the x word, bit y of the y word and bit z of the z word and no other bit, and
\* clears none.
C20_ChangesWords ==
    /\ [](WordsTogether(changes))
    /\ [][pushed' # NoPush =>
            /\ changes'.x = changes.x \cup {pushed'[1]}
            /\ changes'.y = changes.y \cup {pushed'[2]}
            /\ changes'.z = changes.z \cup {pushed'[3]}]_vars

\* a MeshChanges pushed again after a clear, with several planes on one axis
\* and one plane on another
C20_Witness ==
    /\ pushed = <<0, LEN - 1, 3>>
    /\ changes.x = {0, 3}
    /\ changes.y = {LEN - 1}
    /\ ~MeshChanges_is_empty(changes)

====
